---- MODULE Spec2Model ----
(***************************************************************************)
(* Model of scripts/alba_mf_etl.py: the ETLPipeline class (extract,        *)
(* transform, load, run) over a pandas-like table, the files it writes     *)
(* and the sqlite database it fills.                                       *)
(*                                                                         *)
(* A table (DataFrame) is a record                                         *)
(*    [columns |-> <<name, ...>>, index |-> <<label, ...>>,                *)
(*     rows |-> <<row, ...>>]                                              *)
(* a name is a sequence of one-character strings, a row a sequence of      *)
(* cells, one per column, and index holds the row labels.                  *)
(***************************************************************************)
EXTENDS Integers, Sequences, FiniteSets, TLC

\* ------------------------------------------------------------------ bounds

\* Largest number of data rows (below the two header rows) of an input sheet.
MaxRows == 2

\* ------------------------------------------------------------ small helpers

None == [k |-> "none"]
True == [k |-> "true"]
False == [k |-> "false"]

Min(a, b) == IF a < b THEN a ELSE b
Max(a, b) == IF a > b THEN a ELSE b

\* The set of the elements of a sequence.
Range(s) == {s[i] : i \in DOMAIN s}

RECURSIVE Join(_)
\* The string spelled by a sequence of one-character strings.
Join(s) == IF s = <<>> THEN "" ELSE Head(s) \o Join(Tail(s))

RECURSIVE SelectIdx(_, _, _)
\* The positions i of 1..n (from i on) for which keep[i] holds, in order.
SelectIdx(keep, i, n) ==
    IF i > n THEN <<>>
    ELSE IF keep[i] THEN <<i>> \o SelectIdx(keep, i + 1, n)
    ELSE SelectIdx(keep, i + 1, n)

\* -------------------------------------------------------------------- cells

\* What a cell read from the sheet can hold.
NaN == [k |-> "nan"]                               \* an empty cell
Txt(s) == [k |-> "str", s |-> s]                   \* text, as characters
Num(m, e) == [k |-> "num", m |-> m, e |-> e]       \* the number m / 10^e
DateTime(d, t) == [k |-> "dt", d |-> d, t |-> t]   \* a date d with time of day t
\* What the coercions produce.
NaT == [k |-> "nat"]                               \* the missing date
Date(d) == [k |-> "date", d |-> d]                 \* a date with no time of day

\* pandas' isna: what dropna counts as missing.
IsNull(c) == c.k \in {"nan", "nat", "none"}

Digits == <<"0", "1", "2", "3", "4", "5", "6", "7", "8", "9">>
IsDigit(ch) == ch \in Range(Digits)
DigitVal(ch) == (CHOOSE i \in DOMAIN Digits : Digits[i] = ch) - 1

RECURSIVE DigitsVal(_)
\* The number a sequence of digits spells.
DigitsVal(s) ==
    IF s = <<>> THEN 0
    ELSE 10 * DigitsVal(SubSeq(s, 1, Len(s) - 1)) + DigitVal(s[Len(s)])

AllDigits(s) == s # <<>> /\ \A i \in DOMAIN s : IsDigit(s[i])

\* A sequence of characters "d+" or "d+.d+": the only numeric texts of the
\* input sheets (pandas also reads signs, exponents and blanks around).
DotAt(s) == {i \in DOMAIN s : s[i] = "."}
IsNumericText(s) ==
    \/ AllDigits(s)
    \/ \E p \in DotAt(s) :
          /\ DotAt(s) = {p}
          /\ AllDigits(SubSeq(s, 1, p - 1))
          /\ AllDigits(SubSeq(s, p + 1, Len(s)))

ParseNumber(s) ==
    IF DotAt(s) = {} THEN Num(DigitsVal(s), 0)
    ELSE LET p == CHOOSE i \in DotAt(s) : TRUE
         IN  Num(DigitsVal(SubSeq(s, 1, p - 1) \o SubSeq(s, p + 1, Len(s))),
                 Len(s) - p)

\* A text "YYYY-MM-DD", alone or followed by " hh:mm:ss" (the lengths of the
\* months are left out: the input sheets hold days 10 to 19 of January).
IsDateText(s) ==
    /\ Len(s) \in {10, 19}
    /\ AllDigits(SubSeq(s, 1, 4)) /\ s[5] = "-"
    /\ AllDigits(SubSeq(s, 6, 7)) /\ s[8] = "-"
    /\ AllDigits(SubSeq(s, 9, 10))
    /\ DigitsVal(SubSeq(s, 6, 7)) \in 1..12
    /\ DigitsVal(SubSeq(s, 9, 10)) \in 1..31
    /\ Len(s) = 19 =>
          /\ s[11] = " " /\ s[14] = ":" /\ s[17] = ":"
          /\ AllDigits(SubSeq(s, 12, 13)) /\ AllDigits(SubSeq(s, 15, 16))
          /\ AllDigits(SubSeq(s, 18, 19))

\* The epoch day: pandas reads a bare number as nanoseconds since 1970-01-01.
EpochDay == "1970-01-01"

\* pd.to_datetime(x, errors='coerce').dt.floor('D') on one cell.
ToDatetimeFloor(c) ==
    CASE c.k = "nan" -> NaT
      [] c.k = "dt"  -> Date(c.d)
      [] c.k = "str" -> IF IsDateText(c.s) THEN Date(Join(SubSeq(c.s, 1, 10)))
                        ELSE NaT
      [] c.k = "num" -> Date(EpochDay)

\* pd.to_numeric(x, errors='coerce') on one cell of a text/number column.
ToNumeric(c) ==
    CASE c.k = "nan" -> NaN
      [] c.k = "num" -> c
      [] c.k = "str" -> IF IsNumericText(c.s) THEN ParseNumber(c.s) ELSE NaN

\* -------------------------------------------------------------------- names

UpperCase == <<"A", "B", "C", "D", "E", "F", "G", "H", "I", "J", "K", "L", "M",
    "N", "O", "P", "Q", "R", "S", "T", "U", "V", "W", "X", "Y", "Z">>
LowerCase == <<"a", "b", "c", "d", "e", "f", "g", "h", "i", "j", "k", "l", "m",
    "n", "o", "p", "q", "r", "s", "t", "u", "v", "w", "x", "y", "z">>

\* str.lower() on one character.
Lower(ch) ==
    IF ch \in Range(UpperCase)
    THEN LowerCase[CHOOSE i \in DOMAIN UpperCase : UpperCase[i] = ch]
    ELSE ch

\* str.replace(old, new) for one-character old and new, on one character.
Replace(ch, old, new) == IF ch = old THEN new ELSE ch

\* str(col) of a header cell: an empty cell is the float nan.
StrOf(c) ==
    CASE c.k = "nan" -> <<"n", "a", "n">>
      [] c.k = "str" -> c.s

\* col.lower().replace(' ', '_').replace('-', '_')
NormaliseName(s) ==
    [i \in DOMAIN s |-> Replace(Replace(Lower(s[i]), " ", "_"), "-", "_")]

\* 'date' in col
ContainsDate(s) ==
    \E i \in 1..(Len(s) - 3) : SubSeq(s, i, i + 3) = <<"d", "a", "t", "e">>

\* The decimal digits of a natural number, as characters.
RECURSIVE DigitsOf(_)
DigitsOf(n) ==
    IF n < 10 THEN <<Digits[n + 1]>>
    ELSE DigitsOf(n \div 10) \o <<Digits[(n % 10) + 1]>>

\* f'date_{i + 1}' for the 0-based i.
DateName(i) == <<"d", "a", "t", "e", "_">> \o DigitsOf(i + 1)

columns_to_rename == <<1, 18, 35, 47, 55>>

lhc_columns_to_delete ==
    <<"eglng_propane_sales", "llc_share_of_secondary_condensate",
      "psc_share_of_secondary_condensate">>
gp_columns ==
    <<"date_2", "ampco_gas_sales", "eglng_gas_sales", "gas_sales", "offshore_gas">>
td_columns == <<"date_3", "tank_name", "standard_net_oil_volume_(bbls)">>
text_columns == <<"tank_name", "product">>

\* --------------------------------------------------------------- DataFrames

NCols(df) == Len(df.columns)
NRows(df) == Len(df.rows)

\* The column names as strings.
ColumnStrings(df) == [j \in DOMAIN df.columns |-> Join(df.columns[j])]

\* The table of the columns at the 1-based positions ps, in that order.
TakeCols(df, ps) ==
    [columns |-> [j \in DOMAIN ps |-> df.columns[ps[j]]],
     index   |-> df.index,
     rows    |-> [i \in DOMAIN df.rows |->
                     [j \in DOMAIN ps |-> df.rows[i][ps[j]]]]]

\* The table of the rows at the 1-based positions rs, labels kept.
TakeRows(df, rs) ==
    [columns |-> df.columns,
     index   |-> [i \in DOMAIN rs |-> df.index[rs[i]]],
     rows    |-> [i \in DOMAIN rs |-> df.rows[rs[i]]]]

\* The 1-based positions a Python slice [a:b] takes of a sequence of length n.
SlicePositions(a, b, n) ==
    [j \in 1..Max(0, Min(b, n) - Min(a, n)) |-> Min(a, n) + j]

\* df.iloc[:, a:b]
IlocCols(df, a, b) == TakeCols(df, SlicePositions(a, b, NCols(df)))

\* A mutation of DropnaAll: how='any'.
DropnaAny(df) ==
    TakeRows(df, SelectIdx(
        [i \in DOMAIN df.rows |-> \A j \in DOMAIN df.rows[i] : ~IsNull(df.rows[i][j])],
        1, NRows(df)))

\* df.dropna(how='all'): the rows with at least one value that is not missing.
DropnaAll(df) ==
    TakeRows(df, SelectIdx(
        [i \in DOMAIN df.rows |-> \E j \in DOMAIN df.rows[i] : ~IsNull(df.rows[i][j])],
        1, NRows(df)))

\* The positions of the columns whose name is not one of names.
PositionsNotNamed(df, names) ==
    LET strs == ColumnStrings(df)
    IN  SelectIdx([j \in DOMAIN strs |-> strs[j] \notin Range(names)], 1, NCols(df))

RECURSIVE PositionsNamed(_, _)
\* For each name of names in turn, the positions of the columns so named.
PositionsNamed(strs, names) ==
    IF names = <<>> THEN <<>>
    ELSE SelectIdx([j \in DOMAIN strs |-> strs[j] = Head(names)], 1, Len(strs))
            \o PositionsNamed(strs, Tail(names))

\* Whether every name of names is the name of a column (else pandas raises KeyError).
HasColumns(df, names) == Range(names) \subseteq Range(ColumnStrings(df))

\* df.drop(columns=names), for names that are all present.
DropColumns(df, names) == TakeCols(df, PositionsNotNamed(df, names))

\* df[names], for names that are all present.
SelectColumns(df, names) == TakeCols(df, PositionsNamed(ColumnStrings(df), names))

\* A mutation of Rename: no column is renamed.
RenameNothing(df, old, new) == df

\* df.rename(columns={old: new}); a name that is absent is no error.
Rename(df, old, new) ==
    [df EXCEPT !.columns =
        [j \in DOMAIN df.columns |->
            IF Join(df.columns[j]) = old THEN new ELSE df.columns[j]]]

\* Whether a name occurs more than once among the columns.
Duplicated(df, j) ==
    \E j2 \in DOMAIN df.columns : j2 # j /\ df.columns[j2] = df.columns[j]

\* ---------------------------------------------------------------- transform

\* Lines 69-84 raise: no table (None.iloc), no row 1 (iloc[1]), or a header
\* row too short for one of the positions of columns_to_rename.
HeaderRaises(df) ==
    \/ df = None
    \/ NRows(df) < 2
    \/ \E i \in DOMAIN columns_to_rename : columns_to_rename[i] >= NCols(df)

\* column_names: row 1 as normalised strings, the five date positions renamed.
ColumnNames(df) ==
    [j \in 1..NCols(df) |->
        IF \E i \in DOMAIN columns_to_rename : columns_to_rename[i] + 1 = j
        THEN DateName((CHOOSE i \in DOMAIN columns_to_rename :
                          columns_to_rename[i] + 1 = j) - 1)
        ELSE NormaliseName(StrOf(df.rows[2][j]))]

\* df.columns = column_names
SetColumns(df) == [df EXCEPT !.columns = ColumnNames(df)]

\* df.reset_index(drop=True)
ResetIndex(df) == [df EXCEPT !.index = [i \in DOMAIN df.rows |-> i - 1]]

\* df.drop(df.index[:2]): the rows whose label is not one of the first two.
DropFirstTwo(df) ==
    LET labels == {df.index[i] : i \in 1..Min(2, NRows(df))}
    IN  TakeRows(df, SelectIdx([i \in DOMAIN df.rows |-> df.index[i] \notin labels],
                               1, NRows(df)))

\* A mutation of DropHeaderRows: the row labels are not reset.
DropHeaderRowsKeepsLabels(df) == DropFirstTwo(df)

\* df.drop(df.index[:2]).reset_index(drop=True)
DropHeaderRows(df) == ResetIndex(DropFirstTwo(df))

\* df.iloc[:, 1:50]
Truncate(df) == IlocCols(df, 1, 50)

\* The table of line 93: renamed, header rows dropped, truncated.
Prepared(df) == Truncate(DropHeaderRows(SetColumns(df)))

\* Line 98 raises when a name of date_columns names two columns: df[col] is
\* then a table, which to_datetime cannot assemble into dates.
DatesRaise(df) ==
    \E j \in DOMAIN df.columns : ContainsDate(df.columns[j]) /\ Duplicated(df, j)

\* Lines 96-98: every column whose name contains 'date', parsed and floored.
ParseDates(df) ==
    [df EXCEPT !.rows =
        [i \in DOMAIN df.rows |->
            [j \in DOMAIN df.rows[i] |->
                IF ContainsDate(df.columns[j]) THEN ToDatetimeFloor(df.rows[i][j])
                ELSE df.rows[i][j]]]]

\* Lines 101-103: the columns named "nan" dropped.
DropNanColumns(df) == TakeCols(df, PositionsNotNamed(df, <<"nan">>))

\* col in columns_to_exclude (date_columns + ['tank_name', 'product'])
Excluded(name) == ContainsDate(name) \/ Join(name) \in Range(text_columns)

\* Line 109 raises when a name that is not excluded names two columns:
\* to_numeric takes no table.
NumericRaises(df) ==
    \E j \in DOMAIN df.columns : ~Excluded(df.columns[j]) /\ Duplicated(df, j)

\* Lines 106-109: every column that is not excluded, coerced to numbers.
CoerceNumeric(df) ==
    [df EXCEPT !.rows =
        [i \in DOMAIN df.rows |->
            [j \in DOMAIN df.rows[i] |->
                IF Excluded(df.columns[j]) THEN df.rows[i][j]
                ELSE ToNumeric(df.rows[i][j])]]]

\* Whether lines 69-109 raise on the extracted table.
WideRaises(df) ==
    \/ HeaderRaises(df)
    \/ DatesRaise(Prepared(df))
    \/ NumericRaises(DropNanColumns(ParseDates(Prepared(df))))

\* df_ec_data_alba of line 109: the cleaned wide table.
CleanWide(df) == CoerceNumeric(DropNanColumns(ParseDates(Prepared(df))))

TableNames ==
    <<"liquid_hydrocarbons_cached", "gas_production", "tank_data",
      "daily_lifting_data">>

\* Lines 113-116: the positional slice of each sub-table.
SliceOf(wide, name) ==
    CASE name = "liquid_hydrocarbons_cached" -> IlocCols(wide, 0, 11)
      [] name = "gas_production"             -> IlocCols(wide, 12, 24)
      [] name = "tank_data"                  -> IlocCols(wide, 27, 35)
      [] name = "daily_lifting_data"         -> IlocCols(wide, 35, 38)

DateColumn == <<"d", "a", "t", "e">>

\* Lines 121-126
CleanLhc(slice) ==
    Rename(DropColumns(DropnaAll(slice), lhc_columns_to_delete), "date_1", DateColumn)

\* Lines 130-135
CleanGp(slice) ==
    Rename(SelectColumns(DropnaAll(slice), gp_columns), "date_2", DateColumn)

\* Lines 139-144
CleanTd(slice) ==
    Rename(SelectColumns(DropnaAll(slice), td_columns), "date_3", DateColumn)

\* A mutation of CleanDld: the rows of missing values are not dropped.
CleanDldKeepsRows(slice) == Rename(slice, "date_4", DateColumn)

\* Lines 148-151
CleanDld(slice) == Rename(DropnaAll(slice), "date_4", DateColumn)

\* Lines 125, 134, 143 raise KeyError when a named column is not in its slice.
SelectionRaises(wide) ==
    \/ ~HasColumns(SliceOf(wide, "liquid_hydrocarbons_cached"), lhc_columns_to_delete)
    \/ ~HasColumns(SliceOf(wide, "gas_production"), gp_columns)
    \/ ~HasColumns(SliceOf(wide, "tank_data"), td_columns)

\* Whether lines 69-151 raise.
CleaningRaises(df) == WideRaises(df) \/ SelectionRaises(CleanWide(df))

\* The four cleaned tables of line 151, by name.
CleanTables(df) ==
    LET wide == CleanWide(df)
    IN  [name \in Range(TableNames) |->
            CASE name = "liquid_hydrocarbons_cached" -> CleanLhc(SliceOf(wide, name))
              [] name = "gas_production"             -> CleanGp(SliceOf(wide, name))
              [] name = "tank_data"                  -> CleanTd(SliceOf(wide, name))
              [] name = "daily_lifting_data"         -> CleanDld(SliceOf(wide, name))]

\* -------------------------------------------------------------- input sheets

\* Header texts of the EC DATA sheet.
\* "Date"
HdrDate == <<"D", "a", "t", "e">>
\* "EGLNG Propane Sales"
HdrEglngPropane == <<"E", "G", "L", "N", "G", " ", "P", "r", "o", "p", "a",
    "n", "e", " ", "S", "a", "l", "e", "s">>
\* "LLC Share of Secondary Condensate"
HdrLlcShare == <<"L", "L", "C", " ", "S", "h", "a", "r", "e", " ", "o",
    "f", " ", "S", "e", "c", "o", "n", "d", "a", "r", "y", " ", "C", "o",
    "n", "d", "e", "n", "s", "a", "t", "e">>
\* "PSC Share of Secondary Condensate"
HdrPscShare == <<"P", "S", "C", " ", "S", "h", "a", "r", "e", " ", "o",
    "f", " ", "S", "e", "c", "o", "n", "d", "a", "r", "y", " ", "C", "o",
    "n", "d", "e", "n", "s", "a", "t", "e">>
\* "AMPCO Gas Sales"
HdrAmpco == <<"A", "M", "P", "C", "O", " ", "G", "a", "s", " ", "S", "a",
    "l", "e", "s">>
\* "EGLNG Gas Sales"
HdrEglngGas == <<"E", "G", "L", "N", "G", " ", "G", "a", "s", " ", "S",
    "a", "l", "e", "s">>
\* "Gas Sales"
HdrGasSales == <<"G", "a", "s", " ", "S", "a", "l", "e", "s">>
\* "Offshore Gas"
HdrOffshore == <<"O", "f", "f", "s", "h", "o", "r", "e", " ", "G", "a",
    "s">>
\* "Tank Name"
HdrTankName == <<"T", "a", "n", "k", " ", "N", "a", "m", "e">>
\* "Standard Net Oil Volume (bbls)"
HdrNetOil == <<"S", "t", "a", "n", "d", "a", "r", "d", " ", "N", "e", "t",
    " ", "O", "i", "l", " ", "V", "o", "l", "u", "m", "e", " ", "(", "b",
    "b", "l", "s", ")">>
\* "Product"
HdrProduct == <<"P", "r", "o", "d", "u", "c", "t">>
\* "Date-5"
HdrDate5 == <<"D", "a", "t", "e", "-", "5">>
\* "Col-<p>": the header of a column the pipeline does not name.
HdrOther(p) == <<"C", "o", "l", "-">> \o DigitsOf(p)

\* Cell texts.
\* "1,234"
TxtThousands == <<"1", ",", "2", "3", "4">>
\* "n/a"
TxtWord == <<"n", "/", "a">>
\* "TK-101"
TxtTank == <<"T", "K", "-", "1", "0", "1">>
\* "Crude"
TxtCrude == <<"C", "r", "u", "d", "e">>
\* "4<r>.5"
TxtDecimal(r) == <<"4", Digits[r + 1], ".", "5">>
\* "2024-01-1<r> 08:30:00"
TxtStamp(r) == <<"2", "0", "2", "4", "-", "0", "1", "-", "1", Digits[r + 1],
    " ", "0", "8", ":", "3", "0", ":", "0", "0">>
\* The day "2024-01-1<r>".
Day(r) == "2024-01-1" \o Digits[r + 1]

\* The raw positions (0-based) of the empty header cells of the sheet as it
\* is laid out: column 0 and the separators between the four blocks.
Separators == {0} \cup 13..17 \cup {33, 34} \cup 43..46

\* The header cell at raw position p of the sheet as it is laid out: four
\* blocks side by side, each opening with its own "Date" column.
LaidOutHeader(p) ==
    CASE p \in Range(columns_to_rename) -> Txt(HdrDate)
      [] p = 2  -> Txt(HdrEglngPropane)
      [] p = 3  -> Txt(HdrLlcShare)
      [] p = 4  -> Txt(HdrPscShare)
      [] p = 19 -> Txt(HdrAmpco)
      [] p = 20 -> Txt(HdrEglngGas)
      [] p = 21 -> Txt(HdrGasSales)
      [] p = 22 -> Txt(HdrOffshore)
      [] p = 36 -> Txt(HdrTankName)
      [] p = 37 -> Txt(HdrNetOil)
      [] p = 48 -> Txt(HdrProduct)
      [] p \in Separators -> NaN
      [] OTHER -> Txt(HdrOther(p))

\* The layouts of the header row the model feeds the pipeline:
\*   laidout      the sheet as it is laid out
\*   unseparated  every separator column carries a header of its own
\*   shifted      three of the separators before the last block carry headers
\*   duplicate    two numeric columns share a header
\*   extradate    a "Date-5" header inside the first block
\*   short        one column fewer than position 55 needs
Layouts == {"laidout", "unseparated", "shifted", "duplicate", "extradate", "short"}

HeaderCell(lay, p) ==
    CASE lay = "unseparated" /\ p \in Separators -> Txt(HdrOther(p))
      [] lay = "shifted" /\ p \in 44..46         -> Txt(HdrOther(p))
      [] lay = "duplicate" /\ p = 6              -> Txt(HdrOther(5))
      [] lay = "extradate" /\ p = 5              -> Txt(HdrDate5)
      [] OTHER                                   -> LaidOutHeader(p)

SheetWidth(lay) == IF lay = "short" THEN 55 ELSE 56

\* The kinds of data row:
\*   blank    every cell empty
\*   full     a value in every named column of every block
\*   dropped  values only in columns that the column selection removes
\*   coerced  texts, some of which the coercions turn into missing values, and
\*            numbers in columns outside the four slices
RowKinds == {"blank", "full", "dropped", "coerced"}

\* The cell at raw position p of the data row of kind kind at sheet row r.
DataCell(kind, r, p) ==
    CASE kind = "full" /\ p \in {1, 18, 35, 47}    -> DateTime(Day(r), "08:30:00")
      [] kind = "full" /\ p \in {2, 5, 19, 20, 21, 22, 37, 49} -> Num(100 * r + p, 0)
      [] kind = "full" /\ p = 36                   -> Txt(TxtTank)
      [] kind = "full" /\ p = 48                   -> Txt(TxtCrude)
      [] kind = "dropped" /\ p \in {2, 23, 38}     -> Num(100 * r + p, 1)
      [] kind = "coerced" /\ p \in {1, 49}         -> Txt(TxtWord)
      [] kind = "coerced" /\ p = 5                 -> Txt(TxtThousands)
      [] kind = "coerced" /\ p \in {12, 30}        -> Num(100 * r + p, 0)
      [] kind = "coerced" /\ p = 19                -> Txt(TxtDecimal(r))
      [] kind = "coerced" /\ p = 47                -> Txt(TxtStamp(r))
      [] OTHER                                     -> NaN

\* "Unnamed: <p>": the label read_excel gives a column with no title.
Unnamed(p) == <<"U", "n", "n", "a", "m", "e", "d", ":", " ">> \o DigitsOf(p)

\* The table read_excel returns for a sheet with the header layout lay and
\* data rows of the kinds kinds: row 0 is a title row, row 1 the header row.
Sheet(lay, kinds) ==
    LET w == SheetWidth(lay)
        n == 2 + Len(kinds)
    IN  [columns |-> [j \in 1..w |-> Unnamed(j - 1)],
         index   |-> [i \in 1..n |-> i - 1],
         rows    |-> [i \in 1..n |->
                        [j \in 1..w |->
                            CASE i = 1 -> NaN
                              [] i = 2 -> HeaderCell(lay, j - 1)
                              [] OTHER -> DataCell(kinds[i - 2], i - 1, j - 1)]]]

\* A sheet with a title row only.
TitleOnly ==
    [columns |-> [j \in 1..56 |-> Unnamed(j - 1)],
     index   |-> <<0>>,
     rows    |-> <<[j \in 1..56 |-> NaN]>>]

KindSeqs == UNION {[1..n -> RowKinds] : n \in 0..MaxRows}

InputSheets == {Sheet(lay, kinds) : lay \in Layouts, kinds \in KindSeqs} \cup {TitleOnly}

\* ------------------------------------------------------------ files, tables

\* No file at a path, no table of a name.
Absent == [k |-> "absent"]
\* No spreadsheet at the input path: read_excel raises.
Missing == [k |-> "missing"]

\* One field of a CSV line: a missing value is written as the empty field.
CsvField(c) == IF IsNull(c) THEN [k |-> "empty"] ELSE c

\* df.to_csv(path, index=False): the header line and one line per row, the row
\* labels left out.
ToCsv(df) ==
    [header |-> df.columns,
     lines  |-> [i \in DOMAIN df.rows |->
                    [j \in DOMAIN df.rows[i] |-> CsvField(df.rows[i][j])]]]

\* The table df.to_sql(name, conn, index=True, index_label="id") creates: the
\* row labels become the column id.
SqlTable(df) ==
    [columns |-> <<<<"i", "d">>>> \o df.columns,
     rows    |-> [i \in DOMAIN df.rows |-> [id |-> df.index[i], values |-> df.rows[i]]]]

\* A mutation of ToSql: if_exists='append'.
ToSqlAppend(old, df) ==
    IF old = Absent THEN SqlTable(df)
    ELSE [old EXCEPT !.rows = @ \o SqlTable(df).rows]

\* The table of a name after df.to_sql(..., if_exists='replace') where old was.
ToSql(old, df) == SqlTable(df)

\* What a run may find in place of an output: a file or table of an earlier,
\* different input.
StaleCsv == [header |-> <<DateColumn>>, lines |-> <<<<Date(EpochDay)>>>>]
StaleTable ==
    [columns |-> <<<<"i", "d">>, DateColumn>>,
     rows    |-> <<[id |-> 0, values |-> <<Date(EpochDay)>>]>>]

\* ---------------------------------------------------------------------- log

Info(msg) == [level |-> "INFO", msg |-> msg]
Error(msg) == [level |-> "ERROR", msg |-> msg]

HasError(lines) == \E i \in DOMAIN lines : lines[i].level = "ERROR"
Logged(lines, msg) == \E i \in DOMAIN lines : lines[i].msg = msg

\* -------------------------------------------------------------------- state

VARIABLES
    excel,      \* data/raw/alba_mf.xlsm: the table of its sheet EC DATA, or Missing
    staging,    \* data/raw/ec_data_alba.csv
    processed,  \* data/processed/<name>.csv, by name
    final,      \* data/final/<name>.csv, by name
    db,         \* the tables of data/raw/mf_data.db, by name
    pc,         \* where run() is
    k,          \* how many of the four writes of the current group are done
    data_dict,  \* run's data_dict: what extract() returned
    cleaned,    \* transform's four cleaned tables, once line 151 is reached
    returned,   \* what transform() returned
    load_ok,    \* what load() returned
    run_ok,     \* what run() returned
    log,        \* the lines logged by the current run
    fault,      \* the input/output error the current run met, "none" if none
    runsLeft,   \* how many times the script is still to be started
    start,      \* the files and tables as the current run found them
    written,    \* the paths and tables the current run wrote, in order
    prev        \* the files, tables and fault the previous run left, None if none

vars == <<excel, staging, processed, final, db, pc, k, data_dict, cleaned,
          returned, load_ok, run_ok, log, fault, runsLeft, start, written, prev>>

Outputs == [staging |-> staging, processed |-> processed, final |-> final, db |-> db]

\* The sheets on which the script is started a second time.
TwiceSheets ==
    {Sheet(lay, kinds) : lay \in {"laidout", "unseparated"},
                         kinds \in UNION {[1..n -> {"full"}] : n \in 0..MaxRows}}

Init ==
    /\ excel \in InputSheets \cup {Missing}
    /\ \E old \in BOOLEAN :
          /\ staging = IF old THEN StaleCsv ELSE Absent
          /\ processed = [name \in Range(TableNames) |-> IF old THEN StaleCsv ELSE Absent]
          /\ final = [name \in Range(TableNames) |-> IF old THEN StaleCsv ELSE Absent]
          /\ db = [name \in Range(TableNames) |-> IF old THEN StaleTable ELSE Absent]
    /\ runsLeft = IF excel \in TwiceSheets \cup {Missing} THEN 2 ELSE 1
    /\ pc = "idle"
    /\ k = 0
    /\ data_dict = None
    /\ cleaned = None
    /\ returned = None
    /\ load_ok = None
    /\ run_ok = None
    /\ log = <<>>
    /\ fault = "none"
    /\ start = None
    /\ written = <<>>
    /\ prev = None

\* ------------------------------------------------------------------ actions

\* The script is started: pipeline.run() logs its start (lines 203-206).
RunStart ==
    /\ pc \in {"idle", "done"}
    /\ runsLeft > 0
    /\ runsLeft' = runsLeft - 1
    /\ prev' = IF pc = "done" THEN [out |-> Outputs, fault |-> fault] ELSE prev
    /\ start' = Outputs
    /\ written' = <<>>
    /\ log' = <<Info("Iniciando pipeline")>>
    /\ pc' = "extract"
    /\ k' = 0
    /\ data_dict' = None
    /\ cleaned' = None
    /\ returned' = None
    /\ load_ok' = None
    /\ run_ok' = None
    /\ fault' = "none"
    /\ UNCHANGED <<excel, staging, processed, final, db>>

\* A mutation of ExtractFromExcelEcData: the failure is not logged.
ExtractFromExcelEcDataSilent(file, old, writable) ==
    IF file # Missing /\ writable
    THEN [df |-> file, staging |-> ToCsv(file), written |-> <<"raw/ec_data_alba.csv">>,
          lines |-> <<Info("Datos extraidos de Excel")>>, fault |-> "none"]
    ELSE [df |-> None, staging |-> old, written |-> <<>>, lines |-> <<>>,
          fault |-> IF file = Missing THEN "read" ELSE "staging"]

\* extract_from_excel_ec_data (lines 31-45) on the input file, where the
\* staging CSV holds old and can be written or not: what it returns, what the
\* staging CSV holds afterwards and what it logs.
ExtractFromExcelEcData(file, old, writable) ==
    IF file # Missing /\ writable
    THEN [df |-> file, staging |-> ToCsv(file), written |-> <<"raw/ec_data_alba.csv">>,
          lines |-> <<Info("Datos extraidos de Excel")>>, fault |-> "none"]
    ELSE [df |-> None, staging |-> old, written |-> <<>>,
          lines |-> <<Error("Error al extraer datos de Excel")>>,
          fault |-> IF file = Missing THEN "read" ELSE "staging"]

\* extract() (lines 47-61), then the stage that follows it in run().
ExtractThen(afterFailure) ==
    /\ pc = "extract"
    /\ \E writable \in BOOLEAN :
          LET r == ExtractFromExcelEcData(excel, staging, writable)
          IN  /\ log' = log \o <<Info("Iniciando la extraccion de datos")>> \o r.lines
              /\ staging' = r.staging
              /\ written' = written \o r.written
              /\ data_dict' = [ec_data_alba |-> r.df]
              /\ fault' = r.fault
              /\ pc' = IF r.df = None THEN afterFailure ELSE "transform"
    /\ UNCHANGED <<excel, processed, final, db, k, cleaned, returned, load_ok,
                   run_ok, runsLeft, start, prev>>

\* A mutation of Extract: run() stops at a failed extraction.
ExtractShortCircuit == ExtractThen("done")

\* data_dict = self.extract() (line 207): transform is next whatever it returned.
Extract == ExtractThen("transform")

\* transform(), lines 65-151: everything up to the four cleaned tables. An
\* exception anywhere in it is caught at line 176 and transform returns None.
TransformClean ==
    /\ pc = "transform"
    /\ IF CleaningRaises(data_dict.ec_data_alba)
       THEN /\ log' = log \o <<Info("Iniciando la transformacion de datos"),
                               Error("Error en la transformacion de datos")>>
            /\ cleaned' = None
            /\ returned' = None
            /\ pc' = "unpack"
       ELSE /\ log' = log \o <<Info("Iniciando la transformacion de datos")>>
            /\ cleaned' = CleanTables(data_dict.ec_data_alba)
            /\ returned' = None
            /\ pc' = "write"
    /\ k' = 0
    /\ UNCHANGED <<excel, staging, processed, final, db, data_dict, load_ok,
                   run_ok, fault, runsLeft, start, written, prev>>

\* A mutation of WriteOrder: the last table is written first.
WriteOrderReversed ==
    <<"daily_lifting_data", "tank_data", "gas_production",
      "liquid_hydrocarbons_cached">>

\* The order in which transform (lines 168-171) and load (lines 185-188 and
\* 192-195) write the four tables.
WriteOrder == TableNames

\* transform(), one of lines 168-171: the next intermediate CSV is written, or
\* the write raises and transform returns None.
TransformWrite ==
    /\ pc = "write"
    /\ k < Len(WriteOrder)
    /\ \E writable \in BOOLEAN :
          LET name == WriteOrder[k + 1]
          IN  IF writable
              THEN /\ processed' = [processed EXCEPT ![name] = ToCsv(cleaned[name])]
                   /\ written' = written \o <<"processed/" \o name>>
                   /\ k' = k + 1
                   /\ UNCHANGED <<log, returned, pc, fault>>
              ELSE /\ log' = log \o <<Error("Error en la transformacion de datos")>>
                   /\ returned' = None
                   /\ pc' = "unpack"
                   /\ fault' = "processed/" \o name
                   /\ UNCHANGED <<processed, k, written>>
    /\ UNCHANGED <<excel, staging, final, db, data_dict, cleaned, load_ok, run_ok,
                   runsLeft, start, prev>>

\* transform(), lines 173-175: the four tables are returned.
TransformReturn ==
    /\ pc = "write"
    /\ k = Len(WriteOrder)
    /\ log' = log \o <<Info("Datos transformados")>>
    /\ returned' = cleaned
    /\ pc' = "unpack"
    /\ UNCHANGED <<excel, staging, processed, final, db, k, data_dict, cleaned,
                   load_ok, run_ok, fault, runsLeft, start, written, prev>>

\* A mutation of UnpackRaises: the driver goes on with whatever came back.
UnpackNeverRaises(value) == FALSE

\* lhc, gp, td, dld = ... (line 208): unpacking None raises TypeError.
UnpackRaises(value) == value = None

\* run(), line 208 after transform returned: the result is unpacked, or the
\* TypeError is caught at line 212 and run returns False.
Unpack ==
    /\ pc = "unpack"
    /\ IF UnpackRaises(returned)
       THEN /\ log' = log \o <<Error("Error en el proceso ETL")>>
            /\ run_ok' = False
            /\ pc' = "done"
       ELSE /\ pc' = "load"
            /\ UNCHANGED <<log, run_ok>>
    /\ UNCHANGED <<excel, staging, processed, final, db, k, data_dict, cleaned,
                   returned, load_ok, fault, runsLeft, start, written, prev>>

\* load(), lines 181-182: load is entered.
LoadStart ==
    /\ pc = "load"
    /\ log' = log \o <<Info("Iniciando la carga de datos")>>
    /\ k' = 0
    /\ pc' = "load_csv"
    /\ UNCHANGED <<excel, staging, processed, final, db, data_dict, cleaned,
                   returned, load_ok, run_ok, fault, runsLeft, start, written, prev>>

\* load(), one of lines 185-188: the next final CSV is written, or the write
\* raises (as it does on None, which has no to_csv) and load returns None.
LoadCsv ==
    /\ pc = "load_csv"
    /\ \E writable \in BOOLEAN :
          LET name == WriteOrder[k + 1]
          IN  IF writable /\ returned # None
              THEN /\ final' = [final EXCEPT ![name] = ToCsv(returned[name])]
                   /\ written' = written \o <<"final/" \o name>>
                   /\ k' = k + 1
                   /\ pc' = IF k + 1 = Len(WriteOrder) THEN "connect" ELSE "load_csv"
                   /\ UNCHANGED <<log, fault>>
              ELSE /\ log' = log \o <<Error("Error en la carga de datos")>>
                   /\ pc' = "finish"
                   /\ fault' = IF returned = None THEN fault ELSE "final/" \o name
                   /\ UNCHANGED <<final, k, written>>
    /\ load_ok' = None
    /\ UNCHANGED <<excel, staging, processed, db, data_dict, cleaned, returned,
                   run_ok, runsLeft, start, prev>>

\* load(), line 191: the database is opened, or sqlite3.connect raises.
LoadConnect ==
    /\ pc = "connect"
    /\ \E opened \in BOOLEAN :
          IF opened
          THEN /\ pc' = "load_sql"
               /\ UNCHANGED <<log, fault>>
          ELSE /\ log' = log \o <<Error("Error en la carga de datos")>>
               /\ pc' = "finish"
               /\ fault' = "connect"
    /\ k' = 0
    /\ load_ok' = None
    /\ UNCHANGED <<excel, staging, processed, final, db, data_dict, cleaned,
                   returned, run_ok, runsLeft, start, written, prev>>

\* load(), one of lines 192-195: the next table replaces the one of its name,
\* or to_sql raises and load returns None; after the fourth, load logs and
\* returns True (lines 197-199).
LoadSql ==
    /\ pc = "load_sql"
    /\ \E writable \in BOOLEAN :
          LET name == WriteOrder[k + 1]
          IN  IF writable
              THEN /\ db' = [db EXCEPT ![name] = ToSql(db[name], returned[name])]
                   /\ written' = written \o <<"db/" \o name>>
                   /\ k' = k + 1
                   /\ IF k + 1 = Len(WriteOrder)
                      THEN /\ log' = log \o <<Info("Datos cargados y guardados")>>
                           /\ load_ok' = True
                           /\ pc' = "finish"
                      ELSE UNCHANGED <<log, load_ok, pc>>
                   /\ UNCHANGED fault
              ELSE /\ log' = log \o <<Error("Error en la carga de datos")>>
                   /\ load_ok' = None
                   /\ pc' = "finish"
                   /\ fault' = "db/" \o name
                   /\ UNCHANGED <<db, k, written>>
    /\ UNCHANGED <<excel, staging, processed, final, data_dict, cleaned, returned,
                   run_ok, runsLeft, start, prev>>

\* return True (line 211), whatever load returned.
RunResult(loaded) == True

\* run(), lines 209-211 after load returned: its result is dropped, success is
\* logged and run returns True.
Finish ==
    /\ pc = "finish"
    /\ log' = log \o <<Info("Pipeline ETL completado con exito.")>>
    /\ run_ok' = RunResult(load_ok)
    /\ pc' = "done"
    /\ UNCHANGED <<excel, staging, processed, final, db, k, data_dict, cleaned,
                   returned, load_ok, fault, runsLeft, start, written, prev>>

Next ==
    \/ RunStart
    \/ Extract
    \/ TransformClean
    \/ TransformWrite
    \/ TransformReturn
    \/ Unpack
    \/ LoadStart
    \/ LoadCsv
    \/ LoadConnect
    \/ LoadSql
    \/ Finish

Spec == Init /\ [][Next]_vars

\* ------------------------------------------------------------------- claims

StartExtract == "Iniciando la extraccion de datos"
StartTransform == "Iniciando la transformacion de datos"
StartLoad == "Iniciando la carga de datos"
ExtractError == "Error al extraer datos de Excel"
TransformError == "Error en la transformacion de datos"
LoadError == "Error en la carga de datos"
RunSuccess == "Pipeline ETL completado con exito."

\* Whether the run has written a final CSV or a table of the database.
WroteFinalOutput ==
    \E i \in DOMAIN written :
        written[i] \in {"final/" \o name : name \in Range(TableNames)}
                          \cup {"db/" \o name : name \in Range(TableNames)}

\* The positions of load() and of what follows it in run().
InOrAfterLoad == pc \in {"load", "load_csv", "connect", "load_sql", "finish"}

\* The 0-based slice [a, b) of each sub-table, as the claims state them.
ClaimedSlice ==
    [liquid_hydrocarbons_cached |-> <<0, 11>>, gas_production |-> <<12, 24>>,
     tank_data |-> <<27, 35>>, daily_lifting_data |-> <<35, 38>>]

\* The 1-based positions of the columns of wide in the claimed slice of name.
SliceColumns(wide, name) ==
    {j \in 1..NCols(wide) : ClaimedSlice[name][1] < j /\ j <= ClaimedSlice[name][2]}

\* The rows of wide (1-based) with a value in some column of the slice of name.
RowsWithValue(wide, name) ==
    {i \in 1..NRows(wide) :
        \E j \in SliceColumns(wide, name) : ~IsNull(wide.rows[i][j])}

\* Whether row i of table t holds only missing values.
AllNullRow(t, i) == \A j \in DOMAIN t.rows[i] : IsNull(t.rows[i][j])

ColumnSet(t) == Range(ColumnStrings(t))

\* C1: when the input spreadsheet is missing, extract_from_excel_ec_data
\* returns None after logging an error and leaves the staging CSV alone, and in
\* that run no final CSV and no table of the database is written: load() is
\* never entered.
C1_MissingFileWritesNothing ==
    (excel = Missing /\ pc \notin {"idle", "extract"}) =>
        /\ data_dict.ec_data_alba = None
        /\ Logged(log, ExtractError)
        /\ staging = start.staging
        /\ written = <<>>
        /\ final = start.final
        /\ db = start.db
        /\ ~Logged(log, StartLoad)
        /\ ~InOrAfterLoad

\* A run on a missing spreadsheet has ended.
C1_Witness ==
    /\ excel = Missing
    /\ pc = "done"
    /\ run_ok = False
    /\ final = start.final

\* C2: run() returns True if and only if extract, transform and load all
\* completed without a caught error in that run, and False otherwise.
C2_TrueIffNoCaughtError ==
    pc = "done" =>
        /\ run_ok \in {True, False}
        /\ run_ok = True <=> ~HasError(log)
        /\ Logged(log, RunSuccess) => ~HasError(log)

\* C3: once transform() has failed, it has returned no result and load() is
\* not invoked in that run, whatever made it fail.
C3_FailedTransformNeverLoads ==
    Logged(log, TransformError) =>
        /\ returned = None
        /\ ~Logged(log, StartLoad)
        /\ ~InOrAfterLoad
        /\ ~WroteFinalOutput
        /\ final = start.final
        /\ db = start.db

\* A run in which transform failed at its third write has ended.
C3_Witness ==
    /\ pc = "done"
    /\ fault = "processed/tank_data"
    /\ Logged(log, TransformError)
    /\ run_ok = False

\* C4: when transform() returns, for each sub-table the rows it keeps are
\* exactly the rows of the cleaned wide table with a value in some column of
\* the sub-table's own slice, in their original order: the rows removed are
\* exactly those that are missing in every column of the slice.
C4_RowsDroppedExactlyAllNull ==
    (pc = "unpack" /\ returned # None) =>
        LET wide == CleanWide(data_dict.ec_data_alba)
        IN  \A name \in Range(TableNames) :
                LET t == returned[name]
                IN  /\ Range(t.index) = {i - 1 : i \in RowsWithValue(wide, name)}
                    /\ Len(t.index) = Cardinality(RowsWithValue(wide, name))
                    /\ \A a, b \in DOMAIN t.index : a < b => t.index[a] < t.index[b]

\* transform returned tables of which one lost a row that another one kept,
\* and lost a row whose cells were not empty in the sheet.
C4_Witness ==
    /\ pc = "unpack"
    /\ returned # None
    /\ \E n1, n2 \in Range(TableNames) :
          Range(returned[n1].index) # Range(returned[n2].index)
    /\ \E i \in 3..NRows(excel) :
          /\ \E j \in 2..12 : ~IsNull(excel.rows[i][j])
          /\ (i - 3) \notin Range(returned["liquid_hydrocarbons_cached"].index)

\* C5 as stated: no row of a returned table is missing in every column the
\* table has after its column selection.
C5_NoAllNullRowInOwnColumns ==
    (pc = "unpack" /\ returned # None) =>
        \A name \in Range(TableNames) :
            \A i \in DOMAIN returned[name].rows : ~AllNullRow(returned[name], i)

\* C5, amended: every row of a returned table has a value in some column of
\* the table's positional slice of the cleaned wide table, and no row of the
\* daily-lifting table, which keeps its whole slice, is missing in every one
\* of its own columns.
C5_NoAllNullRowInSlice ==
    (pc = "unpack" /\ returned # None) =>
        LET wide == CleanWide(data_dict.ec_data_alba)
        IN  /\ \A name \in Range(TableNames) :
                  \A i \in DOMAIN returned[name].rows :
                      (returned[name].index[i] + 1) \in RowsWithValue(wide, name)
            /\ \A i \in DOMAIN returned["daily_lifting_data"].rows :
                  ~AllNullRow(returned["daily_lifting_data"], i)

\* transform returned a gas-production table with a row that is missing in
\* all of its five columns.
C5_Witness ==
    /\ pc = "unpack"
    /\ returned # None
    /\ \E i \in DOMAIN returned["gas_production"].rows :
          AllNullRow(returned["gas_production"], i)

DateNames == {"date_1", "date_2", "date_3", "date_4", "date_5"}

\* The column sets of the four returned tables are the fixed lists.
FixedColumnLists ==
    LET wide == CleanWide(data_dict.ec_data_alba)
        lhc == {Join(wide.columns[j]) :
                   j \in SliceColumns(wide, "liquid_hydrocarbons_cached")}
        dld == {Join(wide.columns[j]) : j \in SliceColumns(wide, "daily_lifting_data")}
        Renamed(names, old) == {IF n = old THEN "date" ELSE n : n \in names}
    IN  /\ DOMAIN returned = Range(TableNames)
        /\ ColumnSet(returned["gas_production"]) =
              {"date", "ampco_gas_sales", "eglng_gas_sales", "gas_sales", "offshore_gas"}
        /\ ColumnSet(returned["tank_data"]) =
              {"date", "tank_name", "standard_net_oil_volume_(bbls)"}
        /\ ColumnSet(returned["daily_lifting_data"]) = Renamed(dld, "date_4")
        /\ ColumnSet(returned["liquid_hydrocarbons_cached"]) =
              Renamed(lhc \ Range(lhc_columns_to_delete), "date_1")

\* C6 as stated: the column sets are the fixed lists, and each of the four
\* tables has a column date and no column date_1..date_5.
C6_FixedListsAndDateEverywhere ==
    (pc = "unpack" /\ returned # None) =>
        /\ FixedColumnLists
        /\ \A name \in Range(TableNames) :
              /\ "date" \in ColumnSet(returned[name])
              /\ ColumnSet(returned[name]) \cap DateNames = {}

\* C6, amended: the column sets are the fixed lists; liquid-hydrocarbons,
\* gas-production and tank-data each have a column date; daily-lifting has one
\* exactly when date_4 (or a column already named date) lies in its slice; no
\* returned table has a column date_1..date_4.
C6_FixedListsAndDateWhereSelected ==
    (pc = "unpack" /\ returned # None) =>
        LET wide == CleanWide(data_dict.ec_data_alba)
        IN  /\ FixedColumnLists
            /\ \A name \in Range(TableNames) \ {"daily_lifting_data"} :
                  "date" \in ColumnSet(returned[name])
            /\ "date" \in ColumnSet(returned["daily_lifting_data"]) <=>
                  \E j \in SliceColumns(wide, "daily_lifting_data") :
                      Join(wide.columns[j]) \in {"date_4", "date"}
            /\ \A name \in Range(TableNames) :
                  ColumnSet(returned[name]) \cap (DateNames \ {"date_5"}) = {}

\* transform returned a daily-lifting table of three columns, none named date.
C6_Witness ==
    /\ pc = "unpack"
    /\ returned # None
    /\ NCols(returned["daily_lifting_data"]) = 3
    /\ "date" \notin ColumnSet(returned["daily_lifting_data"])

\* C7: a second run on the same input that meets the same input/output fault
\* as the first (or none) leaves the four final CSVs and the four tables of
\* the database as the first run left them.
C7_SecondRunChangesNothing ==
    (pc = "done" /\ prev # None /\ fault = prev.fault) =>
        /\ final = prev.out.final
        /\ db = prev.out.db

\* A second run has loaded tables with rows over what the first run left.
C7_Witness ==
    /\ pc = "done"
    /\ prev # None
    /\ load_ok = True
    /\ fault = prev.fault
    /\ \E name \in Range(TableNames) : Len(db[name].rows) > 1

\* The messages of the stage starts among the lines logged.
StageStarts(lines) ==
    LET starts == SelectSeq(lines, LAMBDA l : l.msg \in {StartExtract, StartTransform,
                                                         StartLoad})
    IN  [i \in DOMAIN starts |-> starts[i].msg]

\* C8: in every run the stages start in the order extract, transform, load,
\* each at most once and each after the one before has returned; transform
\* has started once in every run that ended, also when extraction failed.
C8_StagesInOrder ==
    /\ StageStarts(log) = SubSeq(<<StartExtract, StartTransform, StartLoad>>, 1,
                                 Len(StageStarts(log)))
    /\ pc = "done" => Logged(log, StartTransform)
    /\ Logged(log, StartTransform) => data_dict # None
    /\ Logged(log, StartLoad) => returned # None

\* A run whose extraction failed has ended, and transform started and failed.
C8_Witness ==
    /\ pc = "done"
    /\ data_dict # None
    /\ data_dict.ec_data_alba = None
    /\ Logged(log, ExtractError)
    /\ StageStarts(log) = <<StartExtract, StartTransform>>
    /\ Logged(log, TransformError)

\* The order of the intermediate writes, as the claim states it.
ClaimedWriteOrder ==
    <<"liquid_hydrocarbons_cached", "gas_production", "tank_data",
      "daily_lifting_data">>

\* The intermediate CSVs the run has written, in the order of the writes.
ProcessedWritten ==
    SelectSeq(written, LAMBDA path :
        path \in {"processed/" \o name : name \in Range(TableNames)})

\* C9: while transform has not finished cleaning all four tables, and when it
\* failed before doing so, no intermediate CSV has been written or differs
\* from what the run found; the four are written in the order
\* liquid_hydrocarbons_cached, gas_production, tank_data, daily_lifting_data.
C9_NoIntermediateWriteBeforeCleaned ==
    pc # "idle" =>
        /\ cleaned = None => (ProcessedWritten = <<>> /\ processed = start.processed)
        /\ ProcessedWritten =
              [i \in 1..Len(ProcessedWritten) |-> "processed/" \o ClaimedWriteOrder[i]]

\* A run has ended in which transform, given a table, failed while cleaning
\* it, over intermediate files of an earlier input.
C9_Witness ==
    /\ pc = "done"
    /\ data_dict.ec_data_alba # None
    /\ cleaned = None
    /\ Logged(log, TransformError)
    /\ ProcessedWritten = <<>>
    /\ \A name \in Range(TableNames) : processed[name] = StaleCsv

RECURSIVE TableNumber(_, _)
\* The number of the table of a name in TableNames, from n on.
TableNumber(name, n) == IF TableNames[n] = name THEN n ELSE TableNumber(name, n + 1)

\* The value a sheet row holds for the column named column of the table of a
\* name, coerced as that column is.
SourceValue(rawRow, column, name) ==
    LET source == IF Join(column) = "date" THEN DateName(TableNumber(name, 1) - 1)
                  ELSE column
        names  == ColumnNames(excel)
        p      == CHOOSE q \in 2..50 : names[q] = source
        cell   == rawRow[p]
    IN  IF ContainsDate(source) THEN ToDatetimeFloor(cell)
        ELSE IF Join(source) \in {"tank_name", "product"} THEN cell
        ELSE ToNumeric(cell)

\* C10: when load() ends, the id of a row of a table it stored is the row's
\* index in the sheet minus 2: the row holds the values of that sheet row, and
\* within a table the ids strictly increase.
C10_IdIsSheetRowMinusTwo ==
    \A name \in Range(TableNames) :
        (pc = "finish" /\ "db/" \o name \in Range(written)) =>
            LET t == db[name]
            IN  \A i \in DOMAIN t.rows :
                    LET id == t.rows[i].id
                    IN  /\ (id + 3) \in DOMAIN excel.rows
                        /\ \A j \in DOMAIN t.rows[i].values :
                              t.rows[i].values[j] =
                                  SourceValue(excel.rows[id + 3], t.columns[j + 1], name)
                        /\ i > 1 => t.rows[i - 1].id < id

\* A run has loaded a table in which a row's id is not its position: the ids
\* were not renumbered after the rows of missing values were dropped.
C10_Witness ==
    /\ pc = "finish"
    /\ load_ok = True
    /\ \E name \in Range(TableNames) :
          /\ "db/" \o name \in Range(written)
          /\ \E i \in DOMAIN db[name].rows : db[name].rows[i].id # i - 1

====
